---------------------------- MODULE Spec2Model ----------------------------
(***************************************************************************)
(* Model of src/app.py: the extraction-and-graph-assembly pipeline of the  *)
(* AI Knowledge Graph Generator.                                           *)
(*                                                                         *)
(*   - JSON values (what json.loads returns) are tagged records            *)
(*       [t |-> "str"|"num"|"null"|"arr"|"obj", v |-> ...]                 *)
(*     an "obj" holds a sequence of <<key, value>> pairs with distinct     *)
(*     keys, in insertion order (a Python dict).                           *)
(*   - A response text is a sequence of lexemes [k |-> kind, s |-> text];  *)
(*     whitespace, braces, brackets, commas and colons are one-character   *)
(*     lexemes, so strip() and the regular expression \{.*\} act on them   *)
(*     as they act on characters.  No string literal of the model holds a  *)
(*     brace.                                                              *)
(*   - The graph is a set of node records keyed by name and a set of edge  *)
(*     records keyed by the unordered pair of their endpoints (nx.Graph).  *)
(***************************************************************************)
EXTENDS Naturals, Sequences, FiniteSets

VARIABLES
    pc,             \* position in main() / in the function under check
    api_key,        \* st.sidebar.text_input(...)
    input_method,   \* st.radio("Choose input method:", ...)
    typed_text,     \* the value of the text area "Enter your text:"
    uploaded_file,  \* the value of st.file_uploader(...)
    text_input,     \* the local text_input of main
    button,         \* st.button("Generate Knowledge Graph")
    response,       \* what model.generate_content did in this run
    calls,          \* generate_content calls issued since the script (re)started
    json_input,     \* the strings handed to json.loads
    extracted_data, \* the value returned by extract_entities_relationships
    G,              \* the graph returned by create_graph
    messages,       \* the st.warning / st.error / st.success messages shown
    rendered,       \* the graph view was drawn (st.plotly_chart)
    fault           \* class of an exception nothing caught ("" if none)

vars == <<pc, api_key, input_method, typed_text, uploaded_file, text_input,
          button, response, calls, json_input, extracted_data, G, messages,
          rendered, fault>>

---------------------------------------------------------------------------
(* Bounds *)

MaxEntities == 2
MaxRelationships == 2

---------------------------------------------------------------------------
(* JSON values as Python objects *)

Str(s) == [t |-> "str", v |-> s]
Num(s) == [t |-> "num", v |-> s]
Null == [t |-> "null", v |-> ""]
Arr(seq) == [t |-> "arr", v |-> seq]
Obj(pairs) == [t |-> "obj", v |-> pairs]
Unset == [t |-> "unset", v |-> ""]

IsDict(x) == x.t = "obj"

\* bool(x)
Truthy(x) ==
    CASE x.t = "str" -> x.v # ""
      [] x.t = "num" -> x.v # "0"
      [] x.t = "arr" -> Len(x.v) > 0
      [] x.t = "obj" -> Len(x.v) > 0
      [] OTHER -> FALSE

\* hash(x) does not raise
Hashable(x) == x.t \in {"str", "num", "null"}

HasKey(d, key) == \E i \in 1..Len(d.v) : d.v[i][1] = key

\* d[key], for a key of d
DictItem(d, key) == d.v[CHOOSE i \in 1..Len(d.v) : d.v[i][1] = key][2]

\* d.get(key, default)
DictGet(d, key, default) == IF HasKey(d, key) THEN DictItem(d, key) ELSE default

\* d[key] = val
DictPut(d, key, val) ==
    IF HasKey(d, key)
    THEN Obj([i \in 1..Len(d.v) |->
                 IF d.v[i][1] = key THEN <<key, val>> ELSE d.v[i]])
    ELSE Obj(Append(d.v, <<key, val>>))

\* iter(x) does not raise
Iterable(x) == x.t \in {"arr", "str", "obj"}

\* list(x): the elements of a list, the keys of a dict, the characters of a
\* string (every non-empty string iterated in this model is one character)
Elements(x) ==
    CASE x.t = "arr" -> x.v
      [] x.t = "obj" -> [i \in 1..Len(x.v) |-> Str(x.v[i][1])]
      [] x.t = "str" -> IF x.v = "" THEN <<>> ELSE <<x>>
      [] OTHER -> <<>>

---------------------------------------------------------------------------
(* create_graph *)

\* nx.Graph(); err names the exception that ended create_graph, if any
EmptyGraph == [err |-> "", nodes |-> {}, edges |-> {}]

\* the variable G before create_graph has returned
NoGraph == [err |-> "unassigned", nodes |-> {}, edges |-> {}]

Raised(g, exc) == [g EXCEPT !.err = exc]

HasNode(g, n) == Hashable(n) /\ \E x \in g.nodes : x.name = n

\* a node that keeps the attributes it was first given
AddNodeKeepFirst(g, name, type, description) ==
    IF \E x \in g.nodes : x.name = name THEN g
    ELSE [g EXCEPT !.nodes = g.nodes \cup
            {[name |-> name, type |-> type, description |-> description]}]

\* G.add_node(name, type=..., description=...): a new node, or the update of
\* both attributes of the node already keyed by name
AddNode(g, name, type, description) ==
    [g EXCEPT !.nodes = {x \in g.nodes : x.name # name} \cup
        {[name |-> name, type |-> type, description |-> description]}]

\* an edge that keeps the attributes it was first given
AddEdgeKeepFirst(g, source, target, relationship, description) ==
    IF \E x \in g.edges : x.ends = {source, target} THEN g
    ELSE [g EXCEPT !.edges = g.edges \cup
            {[ends |-> {source, target}, relationship |-> relationship,
              description |-> description]}]

\* G.add_edge(source, target, relationship=..., description=...) on an
\* undirected graph without parallel edges
AddEdge(g, source, target, relationship, description) ==
    [g EXCEPT !.edges = {x \in g.edges : x.ends # {source, target}} \cup
        {[ends |-> {source, target}, relationship |-> relationship,
          description |-> description]}]

\* the body of the first loop, for one entity
AddEntity(g, entity) ==
    IF ~IsDict(entity) THEN Raised(g, "TypeError")
    ELSE IF ~HasKey(entity, "name") THEN Raised(g, "KeyError")
    ELSE LET name == DictItem(entity, "name") IN
         IF ~Hashable(name) THEN Raised(g, "TypeError")
         ELSE IF name.t = "null" THEN Raised(g, "ValueError")
         ELSE AddNode(g, name,
                      DictGet(entity, "type", Str("unknown")),
                      DictGet(entity, "description", Str("")))

\* the second loop's body without the has_node tests
AddRelationshipUnchecked(g, rel) ==
    IF ~IsDict(rel) THEN Raised(g, "AttributeError")
    ELSE LET source == DictGet(rel, "source", Str(""))
             target == DictGet(rel, "target", Str(""))
         IN  IF Truthy(source) /\ Truthy(target)
             THEN AddEdge(g, source, target,
                          DictGet(rel, "relationship", Str("related_to")),
                          DictGet(rel, "description", Str("")))
             ELSE g

\* the body of the second loop, for one relationship
AddRelationship(g, rel) ==
    IF ~IsDict(rel) THEN Raised(g, "AttributeError")
    ELSE LET source == DictGet(rel, "source", Str(""))
             target == DictGet(rel, "target", Str(""))
         IN  IF Truthy(source) /\ Truthy(target)
                /\ HasNode(g, source) /\ HasNode(g, target)
             THEN AddEdge(g, source, target,
                          DictGet(rel, "relationship", Str("related_to")),
                          DictGet(rel, "description", Str("")))
             ELSE g

RECURSIVE AddEntities(_, _, _)
AddEntities(g, ents, i) ==
    IF g.err # "" \/ i > Len(ents) THEN g
    ELSE AddEntities(AddEntity(g, ents[i]), ents, i + 1)

RECURSIVE AddRelationships(_, _, _)
AddRelationships(g, rels, i) ==
    IF g.err # "" \/ i > Len(rels) THEN g
    ELSE AddRelationships(AddRelationship(g, rels[i]), rels, i + 1)

create_graph(data) ==
    IF ~IsDict(data) THEN Raised(EmptyGraph, "AttributeError")
    ELSE LET ents == DictGet(data, "entities", Arr(<<>>))
             rels == DictGet(data, "relationships", Arr(<<>>))
         IN  IF ~Iterable(ents) THEN Raised(EmptyGraph, "TypeError")
             ELSE LET g1 == AddEntities(EmptyGraph, Elements(ents), 1) IN
                  IF g1.err # "" THEN g1
                  ELSE IF ~Iterable(rels) THEN Raised(g1, "TypeError")
                  ELSE AddRelationships(g1, Elements(rels), 1)

---------------------------------------------------------------------------
(* The records create_graph is applied to *)

SeqsUpTo(S, n) == UNION {[1..k -> S] : k \in 0..n}

Names == {"", "A", "B"}

Field(key, S) == {<<>>} \cup {<< <<key, Str(s)>> >> : s \in S}

EntityAttrs ==
    {<<>>, << <<"type", Str("person")>>, <<"description", Str("d1")>> >>}

RelationshipAttrs ==
    {<<>>, << <<"relationship", Str("works_for")>>, <<"description", Str("d2")>> >>}

\* entity records: name missing, empty or given; attributes missing or given
EntityRecords == {Obj(n \o a) : n \in Field("name", Names), a \in EntityAttrs}

\* entity records without attributes
BareEntityRecords == {Obj(n) : n \in Field("name", Names)}

\* relationship records: each endpoint missing, empty or a name; the
\* attributes vary on the records whose endpoints are both names
RelationshipRecords ==
    {Obj(s \o t) : s \in Field("source", Names), t \in Field("target", Names)}
    \cup {Obj(<< <<"source", Str(s)>>, <<"target", Str(t)>> >> \o a) :
            s \in Names \ {""}, t \in Names \ {""}, a \in RelationshipAttrs}

Record(ents, rels) ==
    Obj(<< <<"entities", Arr(ents)>>, <<"relationships", Arr(rels)>> >>)

\* the arguments of create_graph: entity records of every kind without
\* relationships, or bare entity records with relationship records
IsGraphInput(data) ==
    \/ \E e \in SeqsUpTo(EntityRecords, MaxEntities) : data = Record(e, <<>>)
    \/ \E e \in SeqsUpTo(BareEntityRecords, MaxEntities) :
       \E r \in SeqsUpTo(RelationshipRecords, MaxRelationships) \ {<<>>} :
          data = Record(e, r)

---------------------------------------------------------------------------
(* Response texts: sequences of lexemes *)

Punct(c) == [k |-> "punct", s |-> c]
WS == [k |-> "ws", s |-> " "]
StrLit(c) == [k |-> "string", s |-> c]
NumLit(c) == [k |-> "number", s |-> c]
Lit(c) == [k |-> "literal", s |-> c]
Word(c) == [k |-> "word", s |-> c]

\* an integer literal of more digits than int() converts: json.loads raises
\* ValueError on it, which is no JSONDecodeError (as is the RecursionError it
\* raises on a nesting deeper than the interpreter's limit, a depth no text
\* of this model reaches)
BigInt == NumLit("over 4300 digits")

\* str.strip()
strip(text) ==
    LET keep == {i \in 1..Len(text) : text[i] # WS} IN
    IF keep = {} THEN <<>>
    ELSE SubSeq(text,
                CHOOSE i \in keep : \A j \in keep : i <= j,
                CHOOSE i \in keep : \A j \in keep : j <= i)

NoMatch == [found |-> FALSE, first |-> 0, last |-> 0]

\* \{.*?\} : the shortest match at the leftmost start
re_search_lazy(text) ==
    LET starts == {i \in 1..Len(text) :
                     text[i] = Punct("{") /\ \E j \in (i+1)..Len(text) : text[j] = Punct("}")}
    IN  IF starts = {} THEN NoMatch
        ELSE LET i == CHOOSE a \in starts : \A b \in starts : a <= b
                 ends == {j \in (i+1)..Len(text) : text[j] = Punct("}")}
             IN  [found |-> TRUE, first |-> i,
                  last |-> CHOOSE a \in ends : \A b \in ends : a <= b]

\* re.search(r'\{.*\}', text, re.DOTALL): the leftmost position at which the
\* pattern matches, and from it the longest match
re_search(text) ==
    LET starts == {i \in 1..Len(text) :
                     text[i] = Punct("{") /\ \E j \in (i+1)..Len(text) : text[j] = Punct("}")}
    IN  IF starts = {} THEN NoMatch
        ELSE LET i == CHOOSE a \in starts : \A b \in starts : a <= b
                 ends == {j \in (i+1)..Len(text) : text[j] = Punct("}")}
             IN  [found |-> TRUE, first |-> i,
                  last |-> CHOOSE a \in ends : \A b \in ends : b <= a]

\* the string handed to json.loads
json_str(response_text) ==
    LET json_match == re_search(response_text) IN
    IF json_match.found
    THEN SubSeq(response_text, json_match.first, json_match.last)
    ELSE response_text

---------------------------------------------------------------------------
(* json.loads *)

\* a result of the scanner: the exception raised ("" if none), the value
\* and the position after it
Scanned(val, next) == [err |-> "", val |-> val, next |-> next]
ScanError(exc, at) == [err |-> exc, val |-> Null, next |-> at]

RECURSIVE SkipWs(_, _)
SkipWs(text, i) ==
    IF i <= Len(text) /\ text[i] = WS THEN SkipWs(text, i + 1) ELSE i

At(text, i, lexeme) == i <= Len(text) /\ text[i] = lexeme

RECURSIVE scan_once(_, _), JSONArray(_, _, _), JSONObject(_, _, _)

\* one value starting at position i
scan_once(text, i) ==
    IF i > Len(text) THEN ScanError("JSONDecodeError", i)
    ELSE LET x == text[i] IN
         CASE x.k = "string" -> Scanned(Str(x.s), i + 1)
           [] x = BigInt -> ScanError("ValueError", i)
           [] x.k = "number" -> Scanned(Num(x.s), i + 1)
           [] x = Lit("null") -> Scanned(Null, i + 1)
           [] x = Punct("[") ->
                LET j == SkipWs(text, i + 1) IN
                IF At(text, j, Punct("]")) THEN Scanned(Arr(<<>>), j + 1)
                ELSE JSONArray(text, j, <<>>)
           [] x = Punct("{") ->
                LET j == SkipWs(text, i + 1) IN
                IF At(text, j, Punct("}")) THEN Scanned(Obj(<<>>), j + 1)
                ELSE JSONObject(text, j, Obj(<<>>))
           [] OTHER -> ScanError("JSONDecodeError", i)

\* the elements of an array from position i on, values holding those before
JSONArray(text, i, values) ==
    LET r == scan_once(text, i) IN
    IF r.err # "" THEN r
    ELSE LET j == SkipWs(text, r.next) IN
         IF At(text, j, Punct("]")) THEN Scanned(Arr(Append(values, r.val)), j + 1)
         ELSE IF At(text, j, Punct(","))
         THEN JSONArray(text, SkipWs(text, j + 1), Append(values, r.val))
         ELSE ScanError("JSONDecodeError", j)

\* the members of an object from position i on, pairs holding those before;
\* a repeated key keeps its last value
JSONObject(text, i, pairs) ==
    IF ~(i <= Len(text) /\ text[i].k = "string")
    THEN ScanError("JSONDecodeError", i)
    ELSE LET j == SkipWs(text, i + 1) IN
         IF ~At(text, j, Punct(":")) THEN ScanError("JSONDecodeError", j)
         ELSE LET r == scan_once(text, SkipWs(text, j + 1)) IN
              IF r.err # "" THEN r
              ELSE LET m == SkipWs(text, r.next)
                       more == DictPut(pairs, text[i].s, r.val)
                   IN  IF At(text, m, Punct("}")) THEN Scanned(more, m + 1)
                       ELSE IF At(text, m, Punct(","))
                       THEN JSONObject(text, SkipWs(text, m + 1), more)
                       ELSE ScanError("JSONDecodeError", m)

\* json.loads(text): one value, white space around it, and nothing else
json_loads(text) ==
    LET r == scan_once(text, SkipWs(text, 1)) IN
    IF r.err # "" THEN r
    ELSE IF SkipWs(text, r.next) <= Len(text)
    THEN ScanError("JSONDecodeError", SkipWs(text, r.next))
    ELSE r

---------------------------------------------------------------------------
(* extract_entities_relationships *)

EmptyStructure == Record(<<>>, <<>>)

\* what generate_content (or reading response.text) did
\* a text is given in three parts, the body and what is written around it;
\* value is the JSON value the body is the rendering of (Unset if of none)
Returns(pre, body, post, value) ==
    [kind |-> "text", exc |-> "", pre |-> pre, body |-> body, post |-> post,
     value |-> value]
Raises(exc) ==
    [kind |-> "raise", exc |-> exc, pre |-> <<>>, body |-> <<>>, post |-> <<>>,
     value |-> Unset]
NoResponse ==
    [kind |-> "none", exc |-> "", pre |-> <<>>, body |-> <<>>, post |-> <<>>,
     value |-> Unset]

Text(outcome) == outcome.pre \o outcome.body \o outcome.post

\* the two except clauses, in their order: the message shown and the value
\* returned for an exception of class exc raised in the try block, after
\* the strings in loads were handed to json.loads
Handled(exc, loads) ==
    IF exc = "JSONDecodeError"
    THEN [data |-> EmptyStructure, errors |-> <<"parse_error">>, loads |-> loads]
    ELSE [data |-> EmptyStructure, errors |-> <<"api_error">>, loads |-> loads]

\* the value returned, the st.error messages shown and the strings handed
\* to json.loads, given what the generation call did
extract_entities_relationships(outcome) ==
    IF outcome.kind = "raise" THEN Handled(outcome.exc, <<>>)
    ELSE LET response_text == strip(Text(outcome))
             r == json_loads(json_str(response_text))
         IN  IF r.err # "" THEN Handled(r.err, <<json_str(response_text)>>)
             ELSE [data |-> r.val, errors |-> <<>>,
                   loads |-> <<json_str(response_text)>>]

---------------------------------------------------------------------------
(* What the generation call may do *)

RECURSIVE Render(_), RenderItems(_, _), RenderPairs(_, _)

\* the text of a JSON value, written as json.dumps writes it
Render(x) ==
    CASE x.t = "str" -> <<StrLit(x.v)>>
      [] x.t = "num" -> <<NumLit(x.v)>>
      [] x.t = "arr" -> <<Punct("[")>> \o RenderItems(x.v, 1) \o <<Punct("]")>>
      [] x.t = "obj" -> <<Punct("{")>> \o RenderPairs(x.v, 1) \o <<Punct("}")>>
      [] OTHER -> <<Lit("null")>>

RenderItems(items, i) ==
    IF i > Len(items) THEN <<>>
    ELSE (IF i > 1 THEN <<Punct(","), WS>> ELSE <<>>)
         \o Render(items[i]) \o RenderItems(items, i + 1)

RenderPairs(pairs, i) ==
    IF i > Len(pairs) THEN <<>>
    ELSE (IF i > 1 THEN <<Punct(","), WS>> ELSE <<>>)
         \o <<StrLit(pairs[i][1]), Punct(":"), WS>> \o Render(pairs[i][2])
         \o RenderPairs(pairs, i + 1)

EntityA ==
    Obj(<< <<"name", Str("A")>>, <<"type", Str("person")>>,
           <<"description", Str("d1")>> >>)
EntityB == Obj(<< <<"name", Str("B")>> >>)
Nameless == Obj(<< <<"type", Str("person")>>, <<"description", Str("d1")>> >>)
RelationAB ==
    Obj(<< <<"source", Str("A")>>, <<"target", Str("B")>>,
           <<"relationship", Str("works_for")>>, <<"description", Str("d2")>> >>)
RelationA == Obj(<< <<"source", Str("A")>> >>)

ResponseEntities == SeqsUpTo({EntityA, EntityB, Nameless}, MaxEntities)
ResponseRelationships == SeqsUpTo({RelationAB, RelationA}, MaxRelationships)

\* JSON values of other shapes than the one the prompt asks for
OddValues ==
    {Obj(<<>>), Arr(<<>>), Arr(<<EntityA>>), Num("1"), Null, Str("A"),
     Obj(<< <<"entities", Arr(<<EntityA>>)>> >>),
     Obj(<< <<"relationships", Arr(<<RelationAB>>)>> >>),
     Obj(<< <<"entities", Null>>, <<"relationships", Arr(<<RelationAB>>)>> >>),
     Obj(<< <<"entities", Arr(<<EntityA>>)>>, <<"relationships", Null>> >>),
     Obj(<< <<"entities", Arr(<<Str("A")>>)>>, <<"relationships", Arr(<<>>)>> >>),
     Obj(<< <<"entities", Arr(<<EntityA>>)>>,
            <<"relationships", Arr(<<Str("A")>>)>> >>),
     Obj(<< <<"entities", Obj(<<>>)>>,
            <<"relationships", Arr(<<RelationAB>>)>> >>),
     Obj(<< <<"entities", Arr(<<Obj(<< <<"name", Null>> >>)>>)>>,
            <<"relationships", Arr(<<>>)>> >>),
     Obj(<< <<"entities",
              Arr(<<Obj(<< <<"name", Str("A")>>, <<"type", Null>> >>)>>)>>,
            <<"relationships", Arr(<<>>)>> >>),
     Obj(<< <<"entities", Arr(<<Obj(<< <<"name", Arr(<<>>)>> >>)>>)>>,
            <<"relationships", Arr(<<>>)>> >>)}

\* the text with a comma put before its last lexeme
TrailingComma(text) ==
    IF text = <<>> THEN <<Punct(",")>>
    ELSE SubSeq(text, 1, Len(text) - 1) \o <<Punct(","), text[Len(text)]>>

\* the text without its last lexeme
Truncated(text) ==
    IF text = <<>> THEN <<>> ELSE SubSeq(text, 1, Len(text) - 1)

\* texts that are the rendering of no value
OtherBodies ==
    {<<Word("Sorry")>>, <<BigInt>>,
     <<Punct("{"), StrLit("entities"), Punct(":"), WS, Punct("["), BigInt, Punct("]"), Punct("}")>>,
     <<Punct("{"), StrLit("entities"), Punct(":"), WS, Punct("["), Punct("]"), Punct(","), WS,
       StrLit("entities"), Punct(":"), WS>> \o Render(Arr(<<EntityA>>)) \o <<Punct("}")>>}

\* what is written before and after the body
Before == {<<>>, <<WS>>, <<Word("Sure"), WS>>, <<Punct("}"), WS>>}
After == {<<>>, <<WS>>, <<WS, Word("Hope")>>, <<WS, Word("see"), WS, Punct("{"), Punct("}")>>}

\* exceptions of the generation call: json.JSONDecodeError or a subclass of
\* it, and any other subclass of Exception
Exceptions == {"JSONDecodeError", "Exception"}

\* the outcomes of model.generate_content and response.text
IsOutcome(o) ==
    \/ \E exc \in Exceptions : o = Raises(exc)
    \/ \E pre \in Before, post \in After :
          \/ \E e \in ResponseEntities, r \in ResponseRelationships :
                \/ o = Returns(pre, Render(Record(e, r)), post, Record(e, r))
                \/ o = Returns(pre, TrailingComma(Render(Record(e, r))), post, Unset)
                \/ o = Returns(pre, Truncated(Render(Record(e, r))), post, Unset)
          \/ \E v \in OddValues :
                \/ o = Returns(pre, Render(v), post, v)
                \/ o = Returns(pre, TrailingComma(Render(v)), post, Unset)
                \/ o = Returns(pre, Truncated(Render(v)), post, Unset)
          \/ \E body \in OtherBodies : o = Returns(pre, body, post, Unset)

---------------------------------------------------------------------------
(* The widgets of the page *)

\* the texts typed in the text area or held, UTF-8 encoded, by a file
Texts == {<<>>, <<WS>>, <<WS, Word("Ada"), WS, Word("works"), WS>>}

\* the value of the file uploader: None, a file whose bytes are the UTF-8
\* encoding of a text, or a file whose bytes are not valid UTF-8
NoFile == [kind |-> "none", text |-> <<>>]
Utf8File(text) == [kind |-> "utf-8", text |-> text]
InvalidFile == [kind |-> "invalid", text |-> <<>>]

Methods == {"Type text directly", "Upload text file"}
Files == {NoFile, InvalidFile} \cup {Utf8File(t) : t \in Texts}

---------------------------------------------------------------------------
(* Specifications *)

\* create_graph as a function of its argument

InitGraph ==
    /\ pc = "input"
    /\ api_key = ""
    /\ input_method = "Type text directly"
    /\ typed_text = <<>>
    /\ uploaded_file = NoFile
    /\ text_input = <<>>
    /\ button = FALSE
    /\ response = NoResponse
    /\ calls = 0
    /\ json_input = <<>>
    /\ IsGraphInput(extracted_data)
    /\ G = NoGraph
    /\ messages = <<>>
    /\ rendered = FALSE
    /\ fault = ""

ApplyCreateGraph ==
    /\ pc = "input"
    /\ G' = create_graph(extracted_data)
    /\ pc' = "done"
    /\ UNCHANGED <<api_key, input_method, typed_text, uploaded_file,
                   text_input, button, response, calls, json_input,
                   extracted_data, messages, rendered, fault>>

NextGraph == ApplyCreateGraph

SpecGraph == InitGraph /\ [][NextGraph]_vars

\* extract_entities_relationships as a function of what the call does

InitExtract ==
    /\ pc = "call"
    /\ api_key = "key"
    /\ input_method = "Type text directly"
    /\ typed_text = <<Word("Ada")>>
    /\ uploaded_file = NoFile
    /\ text_input = <<Word("Ada")>>
    /\ button = TRUE
    /\ IsOutcome(response)
    /\ calls = 0
    /\ json_input = <<>>
    /\ extracted_data = Unset
    /\ G = NoGraph
    /\ messages = <<>>
    /\ rendered = FALSE
    /\ fault = ""

ApplyExtract ==
    /\ pc = "call"
    /\ LET result == extract_entities_relationships(response) IN
          /\ extracted_data' = result.data
          /\ messages' = result.errors
          /\ json_input' = result.loads
    /\ calls' = calls + 1
    /\ pc' = "extracted"
    /\ UNCHANGED <<api_key, input_method, typed_text, uploaded_file,
                   text_input, button, response, G, rendered, fault>>

NextExtract == ApplyExtract

SpecExtract == InitExtract /\ [][NextExtract]_vars

\* main(): one run of the script, from its first line to a return, the
\* last line or an uncaught exception, and the rerun Streamlit starts on
\* the next interaction

\* the widgets' values in one run of the script: a widget the script does
\* not draw has its default value
Widgets(key, method, typed, file, pressed) ==
    /\ key \in {"", "key"}
    /\ pressed \in BOOLEAN
    /\ \/ /\ method = "Type text directly"
          /\ typed \in Texts
          /\ file = NoFile
       \/ /\ method = "Upload text file"
          /\ typed = <<>>
          /\ file \in Files

\* the state as the script starts
Start ==
    /\ pc = "start"
    /\ \E key \in {"", "key"}, pressed \in BOOLEAN, method \in Methods,
          typed \in Texts, file \in Files :
          /\ Widgets(key, method, typed, file, pressed)
          /\ api_key = key
          /\ input_method = method
          /\ typed_text = typed
          /\ uploaded_file = file
          /\ button = pressed
    /\ text_input = <<>>
    /\ response = NoResponse
    /\ calls = 0
    /\ json_input = <<>>
    /\ extracted_data = Unset
    /\ G = NoGraph
    /\ messages = <<>>
    /\ rendered = FALSE
    /\ fault = ""

Init == Start

\* if not api_key: st.warning(...); return
KeyGuard ==
    /\ pc = "start"
    /\ IF api_key = ""
       THEN /\ messages' = Append(messages, "api_key_warning")
            /\ pc' = "returned"
       ELSE /\ messages' = messages
            /\ pc' = "inputs"
    /\ UNCHANGED <<api_key, input_method, typed_text, uploaded_file,
                   text_input, button, response, calls, json_input,
                   extracted_data, G, rendered, fault>>

\* text_input = "", then the text area's value, or the uploaded file's
\* bytes decoded as UTF-8 when a file is uploaded
ReadInput ==
    /\ pc = "inputs"
    /\ IF input_method = "Type text directly"
       THEN /\ text_input' = typed_text
            /\ fault' = fault
            /\ pc' = "button"
       ELSE IF uploaded_file.kind = "none"
       THEN /\ text_input' = <<>>
            /\ fault' = fault
            /\ pc' = "button"
       ELSE IF uploaded_file.kind = "utf-8"
       THEN /\ text_input' = uploaded_file.text
            /\ fault' = fault
            /\ pc' = "button"
       ELSE /\ text_input' = <<>>
            /\ fault' = "UnicodeDecodeError"
            /\ pc' = "crashed"
    /\ UNCHANGED <<api_key, input_method, typed_text, uploaded_file, button,
                   response, calls, json_input, extracted_data, G, messages,
                   rendered>>

\* the button test without the test of the text
ButtonGuardAnyText ==
    /\ pc = "button"
    /\ pc' = IF button THEN "extract" ELSE "returned"
    /\ UNCHANGED <<api_key, input_method, typed_text, uploaded_file,
                   text_input, button, response, calls, json_input,
                   extracted_data, G, messages, rendered, fault>>

\* if st.button(...): if not text_input.strip(): st.error(...); return
ButtonGuard ==
    /\ pc = "button"
    /\ IF ~button
       THEN /\ messages' = messages
            /\ pc' = "returned"
       ELSE IF strip(text_input) = <<>>
       THEN /\ messages' = Append(messages, "empty_input_error")
            /\ pc' = "returned"
       ELSE /\ messages' = messages
            /\ pc' = "extract"
    /\ UNCHANGED <<api_key, input_method, typed_text, uploaded_file,
                   text_input, button, response, calls, json_input,
                   extracted_data, G, rendered, fault>>

\* extracted_data = kg_generator.extract_entities_relationships(text_input)
Extract ==
    /\ pc = "extract"
    /\ IsOutcome(response')
    /\ calls' = calls + 1
    /\ LET result == extract_entities_relationships(response') IN
          /\ extracted_data' = result.data
          /\ messages' = messages \o result.errors
          /\ json_input' = result.loads
    /\ pc' = "check"
    /\ UNCHANGED <<api_key, input_method, typed_text, uploaded_file,
                   text_input, button, G, rendered, fault>>

\* if not extracted_data.get("entities") and not
\* extracted_data.get("relationships"): st.error(...); return
EmptyCheck ==
    /\ pc = "check"
    /\ IF ~IsDict(extracted_data)
       THEN /\ fault' = "AttributeError"
            /\ messages' = messages
            /\ pc' = "crashed"
       ELSE IF /\ ~Truthy(DictGet(extracted_data, "entities", Null))
               /\ ~Truthy(DictGet(extracted_data, "relationships", Null))
       THEN /\ messages' = Append(messages, "no_extraction_error")
            /\ fault' = fault
            /\ pc' = "returned"
       ELSE /\ messages' = messages
            /\ fault' = fault
            /\ pc' = "assemble"
    /\ UNCHANGED <<api_key, input_method, typed_text, uploaded_file,
                   text_input, button, response, calls, json_input,
                   extracted_data, G, rendered>>

\* the graph assembly without the test of the number of nodes
AssembleAnyGraph ==
    /\ pc = "assemble"
    /\ G' = create_graph(extracted_data)
    /\ fault' = G'.err
    /\ pc' = IF G'.err # "" THEN "crashed" ELSE "display"
    /\ UNCHANGED <<api_key, input_method, typed_text, uploaded_file,
                   text_input, button, response, calls, json_input,
                   extracted_data, messages, rendered>>

\* G = kg_generator.create_graph(extracted_data)
\* if len(G.nodes()) == 0: st.error(...); return
Assemble ==
    /\ pc = "assemble"
    /\ G' = create_graph(extracted_data)
    /\ IF G'.err # ""
       THEN /\ fault' = G'.err
            /\ messages' = messages
            /\ pc' = "crashed"
       ELSE IF G'.nodes = {}
       THEN /\ messages' = Append(messages, "no_graph_error")
            /\ fault' = fault
            /\ pc' = "returned"
       ELSE /\ messages' = messages
            /\ fault' = fault
            /\ pc' = "display"
    /\ UNCHANGED <<api_key, input_method, typed_text, uploaded_file,
                   text_input, button, response, calls, json_input,
                   extracted_data, rendered>>

\* st.success(...), then the first tab: create_plotly_visualization calls
\* entity_type.lower() on the type of every node before the chart is drawn
Display ==
    /\ pc = "display"
    /\ messages' = Append(messages, "success")
    /\ IF \E x \in G.nodes : x.type.t # "str"
       THEN /\ fault' = "AttributeError"
            /\ rendered' = rendered
            /\ pc' = "crashed"
       ELSE /\ fault' = fault
            /\ rendered' = TRUE
            /\ pc' = "returned"
    /\ UNCHANGED <<api_key, input_method, typed_text, uploaded_file,
                   text_input, button, response, calls, json_input,
                   extracted_data, G>>

\* the next interaction: the script runs again from its first line
Rerun ==
    /\ pc \in {"returned", "crashed"}
    /\ pc' = "start"
    /\ \E key \in {"", "key"}, pressed \in BOOLEAN, method \in Methods,
          typed \in Texts, file \in Files :
          /\ Widgets(key, method, typed, file, pressed)
          /\ api_key' = key
          /\ input_method' = method
          /\ typed_text' = typed
          /\ uploaded_file' = file
          /\ button' = pressed
    /\ text_input' = <<>>
    /\ response' = NoResponse
    /\ calls' = 0
    /\ json_input' = <<>>
    /\ extracted_data' = Unset
    /\ G' = NoGraph
    /\ messages' = <<>>
    /\ rendered' = FALSE
    /\ fault' = ""

Next ==
    \/ KeyGuard
    \/ ReadInput
    \/ ButtonGuard
    \/ Extract
    \/ EmptyCheck
    \/ Assemble
    \/ Display
    \/ Rerun

Spec == Init /\ [][Next]_vars


---------------------------------------------------------------------------
(* Properties of create_graph (SpecGraph) *)

Ents == DictItem(extracted_data, "entities").v
Rels == DictItem(extracted_data, "relationships").v

Named(i) == HasKey(Ents[i], "name")
EntityNameSet == {DictItem(Ents[i], "name") : i \in {j \in 1..Len(Ents) : Named(j)}}

Source(i) == DictGet(Rels[i], "source", Str(""))
Target(i) == DictGet(Rels[i], "target", Str(""))

\* relationship i names two entities
Linked(i) ==
    /\ Source(i) # Str("") /\ Source(i) \in EntityNameSet
    /\ Target(i) # Str("") /\ Target(i) \in EntityNameSet

Last(S) == CHOOSE i \in S : \A j \in S : j <= i

Returned == pc = "done" /\ G.err = ""

\* C1: every edge of the returned graph joins two non-empty names of entity
\* records, both nodes of the graph; the edges are exactly the pairs of the
\* relationships naming two entities, and a relationship with an empty,
\* missing or unknown endpoint raises nothing: create_graph returns a graph
\* whenever every entity record has a name
C1_EdgesJoinNodes ==
    pc = "done" =>
        /\ G.err = "" =>
              /\ \A e \in G.edges : \A n \in e.ends :
                    /\ n # Str("")
                    /\ n \in EntityNameSet
                    /\ \E x \in G.nodes : x.name = n
              /\ {x.name : x \in G.nodes} = EntityNameSet
              /\ {e.ends : e \in G.edges} =
                    {{Source(i), Target(i)} : i \in {j \in 1..Len(Rels) : Linked(j)}}
        /\ (\A i \in 1..Len(Ents) : Named(i)) => G.err = ""

\* C1 witness: a graph is returned with an edge, from an input holding a
\* relationship with a missing endpoint, one with an empty endpoint or one
\* whose endpoint names no entity
C1_Witness ==
    /\ Returned
    /\ G.edges # {}
    /\ \E i \in 1..Len(Rels) :
          /\ HasKey(Rels[i], "source") /\ Source(i) # Str("")
          /\ Target(i) # Str("")
          /\ Target(i) \notin EntityNameSet

\* C6: the returned graph has one edge per unordered pair of nodes, and its
\* attributes are those, after defaulting, of the last relationship record
\* linking the pair in either direction
C6_LastRelationshipWins ==
    Returned =>
        /\ \A e1, e2 \in G.edges : e1.ends = e2.ends => e1 = e2
        /\ \A e \in G.edges :
              LET k == Last({i \in 1..Len(Rels) :
                               Linked(i) /\ {Source(i), Target(i)} = e.ends})
              IN  /\ e.relationship = DictGet(Rels[k], "relationship", Str("related_to"))
                  /\ e.description = DictGet(Rels[k], "description", Str(""))

\* C6 witness: two linked records A to B and B to A with different
\* attributes have produced a single edge
C6_Witness ==
    /\ Returned
    /\ Cardinality(G.edges) = 1
    /\ \E i, j \in 1..Len(Rels) :
          /\ i < j /\ Linked(i) /\ Linked(j)
          /\ Source(i) = Target(j) /\ Target(i) = Source(j)
          /\ Source(i) # Target(i)
          /\ HasKey(Rels[i], "relationship") /\ ~HasKey(Rels[j], "relationship")

\* C7: the nodes of the returned graph are the names of the entity records,
\* one node per name, and each node's type and description are those of the
\* last record carrying its name, "unknown" and "" standing for a missing
\* type and a missing description
C7_LastEntityWins ==
    Returned =>
        /\ \A x, y \in G.nodes : x.name = y.name => x = y
        /\ {x.name : x \in G.nodes} = EntityNameSet
        /\ \A x \in G.nodes :
              LET k == Last({i \in 1..Len(Ents) :
                               Named(i) /\ DictItem(Ents[i], "name") = x.name})
              IN  /\ x.type = DictGet(Ents[k], "type", Str("unknown"))
                  /\ x.description = DictGet(Ents[k], "description", Str(""))

\* C7 witness: two records carry the same name, the first with a type and a
\* description, the second without, and the node holds the defaults
C7_Witness ==
    /\ Returned
    /\ \E i, j \in 1..Len(Ents) :
          /\ i < j /\ Named(i) /\ Named(j)
          /\ DictItem(Ents[i], "name") = DictItem(Ents[j], "name")
          /\ HasKey(Ents[i], "type") /\ ~HasKey(Ents[j], "type")
          /\ \E x \in G.nodes :
                /\ x.name = DictItem(Ents[j], "name")
                /\ x.type = Str("unknown") /\ x.description = Str("")

\* C10: create_graph rejects no entity record: it returns a graph, in which
\* a record with an empty or a missing name is the node keyed by ""
C10_NoEntityRejected ==
    pc = "done" =>
        /\ G.err = ""
        /\ \A i \in 1..Len(Ents) :
              (~Named(i) \/ DictItem(Ents[i], "name") = Str("")) =>
                  \E x \in G.nodes : x.name = Str("")


---------------------------------------------------------------------------
(* Properties of extract_entities_relationships (SpecExtract) *)

IsArray(d, key) == HasKey(d, key) /\ DictItem(d, key).t = "arr"

\* C2: the value returned by extract_entities_relationships is a record
\* whose entities and relationships fields are both present and arrays
C2_AlwaysBothArrays ==
    pc = "extracted" =>
        /\ IsDict(extracted_data)
        /\ IsArray(extracted_data, "entities")
        /\ IsArray(extracted_data, "relationships")

ParseFailed ==
    /\ response.kind = "text"
    /\ Len(json_input) = 1
    /\ json_loads(json_input[1]).err # ""

\* C4: a failed call shows one message, of the kind of its cause: the API
\* call error when the generation call raised, the response parse error
\* when the recovered text did not parse; either way the empty structure is
\* returned
C4_KindMatchesCause ==
    pc = "extracted" =>
        /\ response.kind = "raise" =>
              messages = <<"api_error">> /\ extracted_data = EmptyStructure
        /\ ParseFailed =>
              messages = <<"parse_error">> /\ extracted_data = EmptyStructure
        /\ (response.kind = "text" /\ ~ParseFailed) => messages = <<>>

Blank(text) == \A i \in 1..Len(text) : text[i] = WS

BraceFree(text) ==
    \A i \in 1..Len(text) : text[i] # Punct("{") /\ text[i] # Punct("}")

\* text without its first a and its last b lexemes is text without the
\* white space at its two ends
StripsTo(text, a, b) ==
    /\ a + b <= Len(text)
    /\ Blank(SubSeq(text, 1, a))
    /\ Blank(SubSeq(text, Len(text) - b + 1, Len(text)))
    /\ a + b < Len(text) => text[a + 1] # WS /\ text[Len(text) - b] # WS

\* h is s from its first opening brace to its last closing brace if that
\* is a substring of s, and s otherwise
IsGreedyCut(h, s) ==
    LET opens == {i \in 1..Len(s) : s[i] = Punct("{")}
        closes == {j \in 1..Len(s) : s[j] = Punct("}")}
    IN  IF \E i \in opens, j \in closes : i < j
        THEN h = SubSeq(s, CHOOSE i \in opens : \A k \in opens : i <= k,
                           CHOOSE j \in closes : \A k \in closes : k <= j)
        ELSE h = s

\* C5: json.loads is handed the stripped response from its first opening
\* brace to its last closing brace when there is such a substring and the
\* whole stripped response otherwise; a JSON object written between texts
\* without braces is returned and no message is shown
C5_GreedyBraces ==
    (pc = "extracted" /\ response.kind = "text") =>
        /\ Len(json_input) = 1
        /\ \E a, b \in 0..Len(Text(response)) :
              /\ StripsTo(Text(response), a, b)
              /\ IsGreedyCut(json_input[1],
                    SubSeq(Text(response), a + 1, Len(Text(response)) - b))
        /\ (IsDict(response.value) /\ BraceFree(response.pre)
              /\ BraceFree(response.post)) =>
              extracted_data = response.value /\ messages = <<>>

\* C5 witness: an object with an entity, written after "Sure" and before
\* "Hope", was cut out of the text and returned
C5_Witness ==
    /\ pc = "extracted"
    /\ response.kind = "text"
    /\ response.pre = <<Word("Sure"), WS>>
    /\ response.post = <<WS, Word("Hope")>>
    /\ IsDict(response.value)
    /\ Truthy(DictGet(response.value, "entities", Null))
    /\ json_input = <<response.body>>
    /\ extracted_data = response.value
    /\ messages = <<>>

---------------------------------------------------------------------------
(* Properties of main (Spec) *)

Ended == pc \in {"returned", "crashed"}

Shown(kind) == \E i \in 1..Len(messages) : messages[i] = kind

ErrorShown ==
    \E i \in 1..Len(messages) :
        messages[i] \in {"empty_input_error", "parse_error", "api_error",
                         "no_extraction_error", "no_graph_error"}

\* the script reached the button: the text was read without an exception
ButtonRead ==
    ~(input_method = "Upload text file" /\ uploaded_file = InvalidFile)

\* C3: a generate action with an API key (the button pressed, and read by
\* the script) ends at the results display or with an error message, and
\* no exception of the extraction, the emptiness checks or the graph
\* assembly reaches the caller of main
C3_NoUnhandledFault ==
    (Ended /\ api_key # "" /\ button /\ ButtonRead) =>
        \/ Shown("success")
        \/ fault = "" /\ ErrorShown

\* C8: the generation call is issued at most once in a run, after a run
\* with an API key, the button pressed and a text that is not blank, and
\* exactly once in such a run, whatever the call does
C8_CallOnlyAfterGuards ==
    /\ calls <= 1
    /\ calls = 0 <=> response = NoResponse
    /\ calls > 0 => api_key # "" /\ button /\ ~Blank(text_input)
    /\ (Ended /\ api_key # "" /\ button /\ ~Blank(text_input)) => calls = 1

\* C8 witness: the call failed, the run has ended and one call was issued
C8_Witness ==
    /\ pc = "returned"
    /\ response.kind = "raise"
    /\ Shown("api_error")
    /\ calls = 1

\* C9: the results display (the success message, the graph view) is
\* reached only for a record with an entity or a relationship and a graph
\* with a node; a record with two empty arrays, or a graph without nodes,
\* ends the run with an error message and no display
C9_DisplayOnlyNonEmpty ==
    /\ (rendered \/ Shown("success")) =>
          /\ IsDict(extracted_data)
          /\ \/ Truthy(DictGet(extracted_data, "entities", Null))
             \/ Truthy(DictGet(extracted_data, "relationships", Null))
          /\ G.err = "" /\ G.nodes # {}
    /\ (Ended /\ extracted_data = EmptyStructure) =>
          ~rendered /\ ~Shown("success") /\ Shown("no_extraction_error")
    /\ (Ended /\ G.err = "" /\ G.nodes = {}) =>
          ~rendered /\ ~Shown("success") /\ Shown("no_graph_error")

\* C9 witness: relationships and no entity were extracted, the graph has no
\* node and the run ended with the error message
C9_Witness ==
    /\ pc = "returned"
    /\ IsDict(extracted_data)
    /\ DictGet(extracted_data, "entities", Null) = Arr(<<>>)
    /\ Truthy(DictGet(extracted_data, "relationships", Null))
    /\ G.err = "" /\ G.nodes = {}
    /\ Shown("no_graph_error")
    /\ ~rendered /\ ~Shown("success")

===========================================================================
